---------------------------- MODULE Spec2Model ----------------------------
(***************************************************************************)
(* A model of the vDSP sample programs, centred on DTMF.c: the key table,  *)
(* the pseudo-random generator, the tone classifier FindTone, the          *)
(* procedure Demonstrate and the command loop of main.                     *)
(*                                                                         *)
(* Characters are their ASCII codes.  A 32-bit unsigned word is a record   *)
(* [hi, lo] of two 16-bit halves, so that no intermediate value leaves the *)
(* range of TLC's integers.  A float frequency is a rational            *)
(* [num, den] whose value a float holds exactly.  A read outside an        *)
(* object yields a value chosen by the caller of the operator (oob).       *)
(***************************************************************************)
EXTENDS Integers, Sequences, FiniteSets, TLC

VARIABLES
    pc,            \* position of the program
    ret,           \* where Demonstrate returns to
    argc,          \* main's argc
    argv1,         \* argv[1], a string without its terminator
    p,             \* main's char *p, as an offset into argv[1]
    stdin,         \* standard input: its bytes and the read position
    c,             \* main's int c
    Key,           \* the argument of the last ConvertKeyToFrequencies call
    F,             \* the FrequencyPair that call returned
    tableReads,    \* the elements of DTMF0 and DTMF1 that call read
    keysSeen,      \* history: every key main has looked up, in order
    demonstrated,  \* history: every key Demonstrate was called for
    Seed,          \* static uint32_t Seed
    returned,      \* history: the values Random returned (times 2^24)
    SeedB,         \* the Seed of a second run of the generator
    returnedB,     \* history: the values Random returned in the second run
    Setup,         \* the FFTSetup of main
    heap,          \* allocation state of Signal and BufferMemory
    Signal,        \* the contents of the block Signal, <<>> without one
    BufferMemory,  \* the contents of the block BufferMemory, likewise
    Frequencies,   \* the candidate list of the last FindTone call
    binsRead,      \* history: the bin index FindTone computed per candidate
    Tone0,         \* Demonstrate's Tone0 (the result of FindTone)
    Tone1,         \* Demonstrate's Tone1
    out,           \* lines written to standard output
    err,           \* lines written to standard error
    status,        \* the exit status of the process, -1 while it runs
    FilterLength,  \* DemonstrateConvolution's FilterLength
    ResultLength,  \* DemonstrateConvolution's ResultLength
    SignalLength,  \* DemonstrateConvolution's SignalLength
    blocks,        \* the elements of the blocks a demonstration allocated
    signalUsed,    \* history: the indices of Signal that vDSP_conv used
    filterUsed,    \* history: the indices of Filter that vDSP_conv used
    iter,          \* the loop iterator i of a demonstration
    demo,          \* the FFT demonstration that runs, "" when none does
    assigned,      \* history: per block, the indices assigned since malloc
    expectedRead,  \* history: the elements CompareComplexVectors read
                   \* through Expected, as <<block, index>>
    timedInput     \* history: the vector the last timed FFT call was passed

vars == <<pc, ret, argc, argv1, p, stdin, c, Key, F, tableReads, keysSeen,
          demonstrated, Seed, returned, SeedB, returnedB, Setup, heap,
          Signal, BufferMemory, Frequencies, binsRead, Tone0, Tone1, out,
          err, status, FilterLength, ResultLength, SignalLength, blocks,
          signalUsed, filterUsed, iter, demo, assigned, expectedRead,
          timedInput>>

---------------------------------------------------------------------------
(* Bounds of the model. *)

\* A read outside an object yields one of 0..MaxGarbage.
MaxGarbage == 2

\* Spectral components (real and imaginary parts) range over 0..MaxAmp.
MaxAmp == 1

\* The longest candidate list of the classifier's test harness.
MaxCandidates == 3

\* The number of Random calls followed in a run of the generator.
MaxDraws == 10

\* The longest standard input, in characters.
MaxInput == 3

\* The longest argv[1], in characters.
MaxArg == 2

\* The greatest of the small filter lengths of DemonstrateConvolution.
MaxFilter == 6

\* The greatest of the small result lengths of DemonstrateConvolution.
MaxResult == 3

\* The number of iterations of a timing loop that are followed.
MaxTimed == 2

---------------------------------------------------------------------------
(* Constants of DTMF.c. *)

Log2SampleLength == 8

RECURSIVE Pow2(_)
Pow2(n) == IF n = 0 THEN 1 ELSE 2 * Pow2(n - 1)

SampleLength == Pow2(Log2SampleLength)

SamplingFrequency == 3266

\* "123A456B789C*0#D" and the null character that ends the array.
Keys == <<49, 50, 51, 65, 52, 53, 54, 66, 55, 56, 57, 67, 42, 48, 35, 68, 0>>

DTMF0 == <<1209, 1336, 1477, 1633>>

DTMF1 == <<697, 770, 852, 941>>

\* NumberOf(a), for the two frequency tables.
NumberOf(a) == Len(a)

\* The values of type char (signed, eight bits).
Char == -128 .. 127

EOF == -1

Newline == 10

\* isspace in the C locale: space, \t, \n, \v, \f, \r.
isspace(ch) == ch = 32 \/ ch \in 9 .. 13

\* toupper in the C locale.
toupper(ch) == IF ch \in 97 .. 122 THEN ch - 32 ELSE ch

\* The values a read outside an object can yield.
Garbage == 0 .. MaxGarbage

\* a[i] for a C array held as a sequence; outside the array the read
\* yields oob.
ArrayRead(a, i, oob) == IF i \in 0 .. Len(a) - 1 THEN a[i + 1] ELSE oob

---------------------------------------------------------------------------
(* Random: DTMF.c lines 55-84. *)

HalfWord == Pow2(16)

Multiplier == 1664525

Increment == 1013904223

\* The uint32_t sum of products, with the carry out of the low half lost.
NextSeedDroppedCarry(s) ==
    LET lo == ((Multiplier % HalfWord) * s.lo) + (Increment % HalfWord)
        hi == (((Multiplier % HalfWord) * s.hi) % HalfWord)
              + (((Multiplier \div HalfWord) * s.lo) % HalfWord)
              + (Increment \div HalfWord)
    IN  [hi |-> hi % HalfWord, lo |-> lo % HalfWord]

\* Seed = 1664525 * Seed + 1013904223, in uint32_t arithmetic.
NextSeed(s) ==
    LET lo == ((Multiplier % HalfWord) * s.lo) + (Increment % HalfWord)
        hi == (((Multiplier % HalfWord) * s.hi) % HalfWord)
              + (((Multiplier \div HalfWord) * s.lo) % HalfWord)
              + (Increment \div HalfWord)
              + (lo \div HalfWord)
    IN  [hi |-> hi % HalfWord, lo |-> lo % HalfWord]

\* (Seed >> 8) * (1.f/16777216), as the numerator over 2^24: a 24-bit
\* integer converts to float exactly and the product by 2^-24 is exact.
RandomValue(s) == (s.hi * Pow2(8)) + (s.lo \div Pow2(8))

\* The Seed after n calls of Random: the first half of the calls, then the
\* rest from the Seed they leave (h), so that the evaluation stays shallow.
RECURSIVE RandomN(_, _)
RandomN(s, n) ==
    IF n = 0 THEN s
    ELSE IF n = 1 THEN NextSeed(s)
    ELSE CHOOSE t \in {RandomN(h, n - (n \div 2)) :
                          h \in {RandomN(s, n \div 2)}} : TRUE

---------------------------------------------------------------------------
(* ConvertKeyToFrequencies: DTMF.c lines 97-115. *)

NULL == -1

\* strchr(s, ch): the offset of the first element of the array s equal to
\* ch, the terminating null character included in the search, or NULL.
strchr(s, ch) ==
    IF \E i \in 1 .. Len(s) : s[i] = ch
    THEN (CHOOSE i \in 1 .. Len(s) :
              s[i] = ch /\ \A j \in 1 .. i - 1 : s[j] # ch) - 1
    ELSE NULL

\* The 16 symbols of the alphabet: Keys without its terminator.
Symbols == {Keys[i] : i \in 1 .. Len(Keys) - 1}

\* The lookup with both tables indexed by the column n%4.
ConvertColumnOnly(k, oob) ==
    LET q == strchr(Keys, k)
    IN  IF q = NULL
        THEN <<0, 0>>
        ELSE <<ArrayRead(DTMF0, q % 4, oob), ArrayRead(DTMF1, q % 4, oob)>>

\* The lookup with row and column exchanged.
ConvertTransposed(k, oob) ==
    LET q == strchr(Keys, k)
    IN  IF q = NULL
        THEN <<0, 0>>
        ELSE <<ArrayRead(DTMF0, q \div 4, oob), ArrayRead(DTMF1, q % 4, oob)>>

\* The pair of frequencies returned for Key; oob is what a read outside
\* DTMF0 or DTMF1 yields.
ConvertKeyToFrequencies(k, oob) ==
    LET q == strchr(Keys, k)
    IN  IF q = NULL
        THEN <<0, 0>>
        ELSE <<ArrayRead(DTMF0, q % 4, oob), ArrayRead(DTMF1, q \div 4, oob)>>

\* The table elements that call reads.
ConvertReads(k) ==
    LET q == strchr(Keys, k)
    IN  IF q = NULL THEN {} ELSE {<<"DTMF0", q % 4>>, <<"DTMF1", q \div 4>>}

---------------------------------------------------------------------------
(* FindTone: DTMF.c lines 118-162. *)

\* FLT_MANT_DIG: the bits of a float's significand.
MantissaBits == 24

\* The least significand of a normal float, as an integer.
MinSignificand == Pow2(MantissaBits - 1)

\* A frequency of a whole number of Hz, as a float.
Hz(f) == [num |-> f, den |-> 1]

\* The float quotient a/d, rounded to nearest (ties to even), as the record
\* [m, e] of value m * 2^-e: long division that doubles the remainder r
\* until the quotient m has MantissaBits bits, then rounds on what is left.
RECURSIVE FloatQuotient(_, _, _, _)
FloatQuotient(m, r, d, e) ==
    IF m >= MinSignificand
    THEN [m |-> IF 2 * r > d \/ (2 * r = d /\ m % 2 = 1) THEN m + 1 ELSE m,
          e |-> e]
    ELSE FloatQuotient((2 * m) + (IF 2 * r >= d THEN 1 ELSE 0),
                       (2 * r) % d, d, e + 1)

FloatDiv(a, d) ==
    IF a = 0 THEN [m |-> 0, e |-> 0] ELSE FloatQuotient(a \div d, a % d, d, 0)

\* int index = Frequencies[i] / SamplingFrequency * SampleLength + .5
\* with a truncating sum: no rounding half up.
BinIndexTruncated(f) ==
    LET q == FloatDiv(f.num, f.den * SamplingFrequency)
        k == q.e - Log2SampleLength
    IN  IF q.m = 0 \/ k > MantissaBits + 1 THEN 0
        ELSE IF k <= 0 THEN q.m * Pow2(0 - k)
        ELSE q.m \div Pow2(k)

\* int index = Frequencies[i] / SamplingFrequency * SampleLength + .5:
\* a float division, an exact product by a power of two, an exact double
\* sum with .5 and the conversion to int, which truncates.
BinIndex(f) ==
    LET q == FloatDiv(f.num, f.den * SamplingFrequency)
        k == q.e - Log2SampleLength
    IN  IF q.m = 0 \/ k > MantissaBits + 1 THEN 0
        ELSE IF k <= 0 THEN q.m * Pow2(0 - k)
        ELSE (q.m + Pow2(k - 1)) \div Pow2(k)

\* Half the sampling frequency, the frequency of bin SampleLength/2.
Nyquist == SamplingFrequency \div 2

\* Frequencies for the bin computation: every whole number of Hz up to
\* Nyquist, and every multiple of a quarter of the bin spacing, which
\* includes the frequencies that lie exactly between two bins.
FrequencyGrid ==
    {Hz(f) : f \in 0 .. Nyquist}
    \cup {[num |-> j * Nyquist, den |-> 2 * SampleLength] :
              j \in 0 .. 2 * SampleLength}

\* The bin index of every frequency the model hands to FindTone, each
\* computed once.
BinIndexOf ==
    [f \in FrequencyGrid \cup {Hz(DTMF0[i]) : i \in DOMAIN DTMF0}
                         \cup {Hz(DTMF1[i]) : i \in DOMAIN DTMF1}
        |-> BinIndex(f)]

\* DSPSplitComplex Buffer = { BufferMemory, BufferMemory + SampleLength/2 },
\* the two pointers as offsets into BufferMemory.
Buffer == [realp |-> 0, imagp |-> SampleLength \div 2]

\* mem[addr] for an allocated block; outside the block the read yields oob.
MemRead(mem, addr, oob) == IF addr \in DOMAIN mem THEN mem[addr] ELSE oob

\* float Value = re*re + im*im for candidate i (from 0) of the list Fr.
Value(mem, B, Fr, i, oob) ==
    LET index == BinIndexOf[Fr[i + 1]]
        re == MemRead(mem, B.realp + index, oob)
        im == MemRead(mem, B.imagp + index, oob)
    IN  (re * re) + (im * im)

\* The loop of FindTone with "MaximumValue <= Value" as its test.
RECURSIVE FindToneLoopLastWins(_, _, _, _, _, _, _, _)
FindToneLoopLastWins(mem, B, Fr, N, oob, i, MaximumValue, MaximumIndex) ==
    IF i < N
    THEN IF MaximumValue <= Value(mem, B, Fr, i, oob)
         THEN FindToneLoopLastWins(mem, B, Fr, N, oob, i + 1,
                                   Value(mem, B, Fr, i, oob), i)
         ELSE FindToneLoopLastWins(mem, B, Fr, N, oob, i + 1,
                                   MaximumValue, MaximumIndex)
    ELSE MaximumIndex

\* The loop of FindTone from iteration i on.
RECURSIVE FindToneLoop(_, _, _, _, _, _, _, _)
FindToneLoop(mem, B, Fr, N, oob, i, MaximumValue, MaximumIndex) ==
    IF i < N
    THEN IF MaximumValue < Value(mem, B, Fr, i, oob)
         THEN FindToneLoop(mem, B, Fr, N, oob, i + 1,
                           Value(mem, B, Fr, i, oob), i)
         ELSE FindToneLoop(mem, B, Fr, N, oob, i + 1,
                           MaximumValue, MaximumIndex)
    ELSE MaximumIndex

FindTone(mem, B, Fr, N, oob) == FindToneLoop(mem, B, Fr, N, oob, 0, -1, 0)

\* What FindTone reads for each candidate: the bin index and the two parts.
BinsOf(mem, B, Fr, N, oob) ==
    [i \in 1 .. N |->
        [index |-> BinIndexOf[Fr[i]],
         re    |-> MemRead(mem, B.realp + BinIndexOf[Fr[i]], oob),
         im    |-> MemRead(mem, B.imagp + BinIndexOf[Fr[i]], oob)]]

\* The two tables as lists of float frequencies.
HzList(a) == [i \in 1 .. Len(a) |-> Hz(a[i])]

---------------------------------------------------------------------------
(* Values of the variables a specification leaves alone. *)

ZeroWord == [hi |-> 0, lo |-> 0]

ZeroMemory == [a \in 0 .. SampleLength - 1 |-> 0]

LookupIdle == Key = 0 /\ F = <<0, 0>> /\ tableReads = {}

RandomIdle ==
    Seed = ZeroWord /\ returned = <<>> /\ SeedB = ZeroWord /\ returnedB = <<>>

ToneIdle ==
    /\ BufferMemory = <<>>
    /\ Frequencies = <<>>
    /\ binsRead = <<>>
    /\ Tone0 = 0
    /\ Tone1 = 0

ConvolutionIdle ==
    /\ FilterLength = 0
    /\ ResultLength = 0
    /\ SignalLength = 0
    /\ blocks = <<>>
    /\ signalUsed = {}
    /\ filterUsed = {}
    /\ iter = 0

FFTIdle ==
    /\ demo = ""
    /\ assigned = <<>>
    /\ expectedRead = {}
    /\ timedInput = <<>>

DemoIdle == ConvolutionIdle /\ FFTIdle

MainIdle ==
    /\ DemoIdle
    /\ ret = "none"
    /\ argc = 1
    /\ argv1 = <<>>
    /\ p = 0
    /\ stdin = [buf |-> <<>>, pos |-> 0]
    /\ c = 0
    /\ keysSeen = <<>>
    /\ demonstrated = <<>>
    /\ Setup = "none"
    /\ heap = [Signal |-> "none", BufferMemory |-> "none"]
    /\ Signal = <<>>
    /\ out = <<>>
    /\ err = <<>>
    /\ status = -1

lookupVars == <<Key, F, tableReads>>

randomVars == <<Seed, returned, SeedB, returnedB>>

toneVars == <<BufferMemory, Frequencies, binsRead, Tone0, Tone1>>

convVars == <<FilterLength, ResultLength, SignalLength, blocks, signalUsed,
              filterUsed, iter>>

fftVars == <<demo, assigned, expectedRead, timedInput>>

demoVars == <<convVars, fftVars>>

mainVars == <<ret, argc, argv1, p, stdin, c, keysSeen, demonstrated, Setup,
              heap, Signal, out, err, status>>

---------------------------------------------------------------------------
(* ConvertKeyToFrequencies on every value of type char. *)

InitLookup ==
    /\ pc = "lookup"
    /\ Key \in Char
    /\ F = <<0, 0>>
    /\ tableReads = {}
    /\ RandomIdle /\ ToneIdle /\ MainIdle

\* One call ConvertKeyToFrequencies(Key).
LookupKey ==
    /\ pc = "lookup"
    /\ \E oob \in Garbage : F' = ConvertKeyToFrequencies(Key, oob)
    /\ tableReads' = ConvertReads(Key)
    /\ pc' = "looked"
    /\ UNCHANGED <<Key, randomVars, toneVars, mainVars>>
    /\ UNCHANGED demoVars

NextLookup == LookupKey

SpecLookup == InitLookup /\ [][NextLookup]_vars

---------------------------------------------------------------------------
(* Two runs of the generator from the same Seed. *)

\* Halves of the seeds the runs start from.
SeedHalves == {0, 1, Pow2(8) - 1, Pow2(8), Pow2(15) - 1, Pow2(15), HalfWord - 1}

InitRandom ==
    /\ pc = "random"
    /\ Seed \in [hi : SeedHalves, lo : SeedHalves]
    /\ SeedB = Seed
    /\ returned = <<>>
    /\ returnedB = <<>>
    /\ LookupIdle /\ ToneIdle /\ MainIdle

\* One call of Random in the first run.
Random ==
    /\ pc = "random"
    /\ Len(returned) < MaxDraws
    /\ Seed' = NextSeed(Seed)
    /\ returned' = Append(returned, RandomValue(Seed'))
    /\ UNCHANGED <<pc, SeedB, returnedB, lookupVars, toneVars, mainVars>>
    /\ UNCHANGED demoVars

\* One call of Random in the second run.
RandomB ==
    /\ pc = "random"
    /\ Len(returnedB) < MaxDraws
    /\ SeedB' = NextSeed(SeedB)
    /\ returnedB' = Append(returnedB, RandomValue(SeedB'))
    /\ UNCHANGED <<pc, Seed, returned, lookupVars, toneVars, mainVars>>
    /\ UNCHANGED demoVars

NextRandom == Random \/ RandomB

SpecRandom == InitRandom /\ [][NextRandom]_vars

---------------------------------------------------------------------------
(* FindTone on candidate lists and transform outputs. *)

\* Frequencies of the lists tried: one of each table and Nyquist's.
ListFrequencies == {Hz(DTMF1[1]), Hz(DTMF0[1]), Hz(DTMF0[4])}

Amplitudes == 0 .. MaxAmp

\* The elements of BufferMemory FindTone reads for the list Fr.
Cells(Fr) ==
    UNION {{Buffer.realp + BinIndexOf[Fr[i]],
            Buffer.imagp + BinIndexOf[Fr[i]]} :
               i \in DOMAIN Fr}
    \cap (0 .. SampleLength - 1)

\* The candidate lists with a transform output to choose freely.
CandidateLists ==
    {HzList(DTMF0), HzList(DTMF1)}
    \cup UNION {[1 .. n -> ListFrequencies] : n \in 1 .. MaxCandidates}

InitFindTone ==
    /\ pc = "findtone"
    /\ \/ /\ Frequencies \in {<<f>> : f \in FrequencyGrid}
          /\ BufferMemory = ZeroMemory
       \/ /\ Frequencies \in CandidateLists
          /\ \E v \in [Cells(Frequencies) -> Amplitudes] :
                 BufferMemory = [a \in 0 .. SampleLength - 1 |->
                                    IF a \in DOMAIN v THEN v[a] ELSE 0]
    /\ binsRead = <<>>
    /\ Tone0 = 0
    /\ Tone1 = 0
    /\ LookupIdle /\ RandomIdle /\ MainIdle

\* One call FindTone(Buffer, Frequencies, N) with N the length of the list.
CallFindTone ==
    /\ pc = "findtone"
    /\ \E oob \in Garbage :
           /\ Tone0' = FindTone(BufferMemory, Buffer, Frequencies,
                                Len(Frequencies), oob)
           /\ binsRead' = BinsOf(BufferMemory, Buffer, Frequencies,
                                 Len(Frequencies), oob)
    /\ pc' = "found"
    /\ UNCHANGED <<BufferMemory, Frequencies, Tone1, lookupVars, randomVars,
                   mainVars>>
    /\ UNCHANGED demoVars

NextFindTone == CallFindTone

SpecFindTone == InitFindTone /\ [][NextFindTone]_vars

---------------------------------------------------------------------------
(* Demonstrate: DTMF.c lines 165-230. *)

EXIT_FAILURE == 1

\* The value of sample i of the signal.  The sum of noise and two sines is
\* kept symbolic: sample i is the token i + 1, so that the samples of one
\* signal are pairwise distinct and the rearrangement can be followed.
Sample(i) == i + 1

\* Whether a is the address base + n*IZ of some n in 0..N-1.
Strided(a, base, IZ, N) ==
    a >= base /\ (a - base) % IZ = 0 /\ (a - base) \div IZ < N

\* vDSP_ctoz(C, IC, Z, IZ, N) on the memory mem that Z points into: for n
\* in 0..N-1, Z.realp[n*IZ] = C[n*IC] and Z.imagp[n*IZ] = C[n*IC + 1].
vDSP_ctoz(C, IC, Z, IZ, N, mem) ==
    [a \in DOMAIN mem |->
        IF Strided(a, Z.imagp, IZ, N)
        THEN C[(((a - Z.imagp) \div IZ) * IC) + 1]
        ELSE IF Strided(a, Z.realp, IZ, N)
        THEN C[((a - Z.realp) \div IZ) * IC]
        ELSE mem[a]]

\* The call of line 213 with a source stride of one real element.
CtozCallStrideOne ==
    vDSP_ctoz(Signal, 1, Buffer, 1, SampleLength \div 2, BufferMemory)

\* vDSP_ctoz((DSPComplex *) Signal, 2, &Buffer, 1, SampleLength / 2).
CtozCall ==
    vDSP_ctoz(Signal, 2, Buffer, 1, SampleLength \div 2, BufferMemory)

\* The elements of BufferMemory that hold bin b of a transform output in
\* the packing of vDSP_fft_zrip: the real part of bin b < SampleLength/2 in
\* realp[b] and its imaginary part in imagp[b], except that imagp[0] holds
\* the real part of bin SampleLength/2.
BinCells(b) ==
    IF b = SampleLength \div 2 THEN {Buffer.imagp}
    ELSE IF b = 0 THEN {Buffer.realp}
    ELSE {Buffer.realp + b, Buffer.imagp + b}

\* A transform output with energy at the bins of DTMF0[i0] and DTMF1[i1]
\* alone: the first in the real part, the second in the imaginary part.
TransformOutput(i0, i1) ==
    LET b0 == BinIndexOf[Hz(DTMF0[i0 + 1])]
        b1 == BinIndexOf[Hz(DTMF1[i1 + 1])]
    IN  [a \in 0 .. SampleLength - 1 |->
            IF a = (IF b0 = SampleLength \div 2 THEN Buffer.imagp
                    ELSE Buffer.realp + b0)
               \/ a = Buffer.imagp + b1
            THEN 1 ELSE 0]

\* What vDSP_fft_zrip may leave in Buffer: the signal carries noise of four
\* times the amplitude of the tones, so either group's strongest bin may be
\* any of its four.
TransformOutputs == {TransformOutput(i0, i1) : i0 \in 0 .. 3, i1 \in 0 .. 3}

\* Keys[Tone1*4 + Tone0], the key printed on line 225.
ReportedKey == Keys[(Tone1 * 4) + Tone0 + 1]

\* Lines 173-178: Signal = malloc(...), whose contents are indeterminate.
MallocSignal ==
    /\ pc = "malloc_signal"
    /\ \/ /\ heap' = [heap EXCEPT !.Signal = "allocated"]
          /\ \E g \in Garbage : Signal' = [i \in 0 .. SampleLength - 1 |-> g]
          /\ pc' = "synthesize"
          /\ UNCHANGED <<err, status>>
       \/ /\ err' = Append(err, <<"unable to allocate memory">>)
          /\ status' = EXIT_FAILURE
          /\ pc' = "exited"
          /\ UNCHANGED <<heap, Signal>>
    /\ UNCHANGED <<ret, argc, argv1, p, stdin, c, keysSeen, demonstrated,
                   Setup, out, lookupVars, randomVars, toneVars>>
    /\ UNCHANGED demoVars

\* Lines 180-196: noise from SampleLength calls of Random, then two tones,
\* each after one more call of Random for its phase.
Synthesize ==
    /\ pc = "synthesize"
    /\ out' = Append(out, <<"Generating signal">>)
    /\ Signal' = [i \in 0 .. SampleLength - 1 |-> Sample(i)]
    /\ Seed' = RandomN(Seed, SampleLength + 2)
    /\ pc' = "malloc_buffer"
    /\ UNCHANGED <<ret, argc, argv1, p, stdin, c, keysSeen, demonstrated,
                   Setup, heap, err, status, lookupVars, returned, SeedB,
                   returnedB, toneVars>>
    /\ UNCHANGED demoVars

\* Lines 201-206: BufferMemory = malloc(...).
MallocBuffer ==
    /\ pc = "malloc_buffer"
    /\ \/ /\ heap' = [heap EXCEPT !.BufferMemory = "allocated"]
          /\ \E g \in Garbage :
                 BufferMemory' = [i \in 0 .. SampleLength - 1 |-> g]
          /\ pc' = "ctoz"
          /\ UNCHANGED <<err, status>>
       \/ /\ err' = Append(err, <<"unable to allocate memory">>)
          /\ status' = EXIT_FAILURE
          /\ pc' = "exited"
          /\ UNCHANGED <<heap, BufferMemory>>
    /\ UNCHANGED <<ret, argc, argv1, p, stdin, c, keysSeen, demonstrated,
                   Setup, Signal, out, lookupVars, randomVars, Frequencies,
                   binsRead, Tone0, Tone1>>
    /\ UNCHANGED demoVars

\* Lines 209-213: the data is copied and rearranged into Buffer.
Ctoz ==
    /\ pc = "ctoz"
    /\ BufferMemory' = CtozCall
    /\ pc' = "fft"
    /\ UNCHANGED <<mainVars, lookupVars, randomVars, Frequencies, binsRead,
                   Tone0, Tone1>>
    /\ UNCHANGED demoVars

\* Lines 215-218: vDSP_fft_zrip transforms Buffer in place.
Transform ==
    /\ pc = "fft"
    /\ out' = Append(out, <<"Analyzing signal">>)
    /\ BufferMemory' \in TransformOutputs
    /\ pc' = "find_tones"
    /\ UNCHANGED <<ret, argc, argv1, p, stdin, c, keysSeen, demonstrated,
                   Setup, heap, Signal, err, status, lookupVars, randomVars,
                   Frequencies, binsRead, Tone0, Tone1>>
    /\ UNCHANGED demoVars

\* Lines 221-225: the two calls of FindTone and the line that reports the
\* key; oob is what the float after BufferMemory holds.
FindTones ==
    /\ pc = "find_tones"
    /\ \E oob \in Garbage :
           /\ Tone0' = FindTone(BufferMemory, Buffer, HzList(DTMF0),
                                NumberOf(DTMF0), oob)
           /\ Tone1' = FindTone(BufferMemory, Buffer, HzList(DTMF1),
                                NumberOf(DTMF1), oob)
           /\ binsRead' = BinsOf(BufferMemory, Buffer, HzList(DTMF0),
                                 NumberOf(DTMF0), oob)
                           \o BinsOf(BufferMemory, Buffer, HzList(DTMF1),
                                     NumberOf(DTMF1), oob)
    /\ Frequencies' = HzList(DTMF1)
    /\ out' = Append(out, <<"Found frequencies">>)
    /\ pc' = "free"
    /\ UNCHANGED <<ret, argc, argv1, p, stdin, c, keysSeen, demonstrated,
                   Setup, heap, Signal, err, status, lookupVars, randomVars,
                   BufferMemory>>
    /\ UNCHANGED demoVars

\* Lines 228-230 without free(Signal).
FreeBufferMemoryOnly ==
    /\ pc = "free"
    /\ heap' = [heap EXCEPT !.BufferMemory = "freed"]
    /\ Signal' = <<>>
    /\ BufferMemory' = <<>>
    /\ Frequencies' = <<>>
    /\ binsRead' = <<>>
    /\ Tone0' = 0
    /\ Tone1' = 0
    /\ pc' = ret
    /\ UNCHANGED <<ret, argc, argv1, p, stdin, c, keysSeen, demonstrated,
                   Setup, out, err, status, lookupVars, randomVars>>
    /\ UNCHANGED demoVars

\* Lines 228-230: both blocks are freed and Demonstrate returns; the blocks
\* and the locals of Demonstrate are no more.
Free ==
    /\ pc = "free"
    /\ heap' = [Signal |-> "freed", BufferMemory |-> "freed"]
    /\ Signal' = <<>>
    /\ BufferMemory' = <<>>
    /\ Frequencies' = <<>>
    /\ binsRead' = <<>>
    /\ Tone0' = 0
    /\ Tone1' = 0
    /\ pc' = ret
    /\ UNCHANGED <<ret, argc, argv1, p, stdin, c, keysSeen, demonstrated,
                   Setup, out, err, status, lookupVars, randomVars>>
    /\ UNCHANGED demoVars

Demonstrate ==
    \/ MallocSignal
    \/ Synthesize
    \/ MallocBuffer
    \/ Ctoz
    \/ Transform
    \/ FindTones
    \/ Free

---------------------------------------------------------------------------
(* main: DTMF.c lines 233-323. *)

\* The value of time(NULL) at the start of the run, as a 32-bit word: the
\* time 1700000000.  Random is checked from other seeds under SpecRandom.
TimeValues == {[hi |-> 1700000000 \div HalfWord,
                lo |-> 1700000000 % HalfWord]}

\* Characters of standard input: NUL, '1', 'x', space and newline.
InputChars == {0, 49, 120, 32, Newline}

\* Characters of argv[1]: '1', 'd' and 'x'.
ArgChars == {49, 100, 120}

\* The strings over the set S of at most n characters.
Strings(S, n) == UNION {[1 .. k -> S] : k \in 0 .. n}

\* The bytes of the stream f that getchar has not returned yet.
Unread(f) == SubSeq(f.buf, f.pos + 1, Len(f.buf))

\* The stream f after the calls of getchar that leave rest unread.
Consumed(f, rest) == [f EXCEPT !.pos = Len(f.buf) - Len(rest)]

\* do c = getchar(); while (c != '\n' && isspace(c)): the character the
\* loop ends on and the input left, for the unread input s.
RECURSIVE SkipSpace(_)
SkipSpace(s) ==
    IF s = <<>> THEN [c |-> EOF, rest |-> <<>>]
    ELSE IF Head(s) # Newline /\ isspace(Head(s)) THEN SkipSpace(Tail(s))
    ELSE [c |-> Head(s), rest |-> Tail(s)]

\* One call of getchar in place of the loop that skips the rest of the line.
SkipOneChar(s) ==
    IF s = <<>> THEN [c |-> EOF, rest |-> <<>>]
    ELSE [c |-> Head(s), rest |-> Tail(s)]

\* do c = getchar(); while (c != EOF && c != '\n').
RECURSIVE SkipLine(_)
SkipLine(s) ==
    IF s = <<>> THEN [c |-> EOF, rest |-> <<>>]
    ELSE IF Head(s) = Newline THEN [c |-> Newline, rest |-> Tail(s)]
    ELSE SkipLine(Tail(s))

InitMain(args, inputs) ==
    /\ DemoIdle
    /\ pc = "main"
    /\ ret = "none"
    /\ argc \in 1 .. 3
    /\ argv1 \in (IF argc = 2 THEN args ELSE {<<>>})
    /\ stdin \in {[buf |-> s, pos |-> 0] :
                     s \in (IF argc = 1 THEN inputs ELSE {<<>>})}
    /\ p = 0
    /\ c = 0
    /\ keysSeen = <<>>
    /\ demonstrated = <<>>
    /\ Setup = "none"
    /\ heap = [Signal |-> "none", BufferMemory |-> "none"]
    /\ Signal = <<>>
    /\ out = <<>>
    /\ err = <<>>
    /\ status = -1
    /\ LookupIdle /\ RandomIdle /\ ToneIdle

Init == InitMain(Strings(ArgChars, MaxArg), Strings(InputChars, MaxInput))

\* Line 236: InitializeRandom sets Seed from the time.
InitializeRandom ==
    /\ pc = "main"
    /\ Seed' \in TimeValues
    /\ pc' = "create_setup"
    /\ UNCHANGED <<mainVars, lookupVars, returned, SeedB, returnedB, toneVars>>
    /\ UNCHANGED demoVars

\* Lines 239-249, 291, 311: the FFT setup is created, or the process exits;
\* then main branches on argc.
CreateSetup ==
    /\ pc = "create_setup"
    /\ \/ /\ Setup' = "created"
          /\ pc' = IF argc <= 1 THEN "prompt"
                    ELSE IF argc = 2 THEN "arg_loop" ELSE "usage"
          /\ UNCHANGED <<err, status>>
       \/ /\ err' = Append(err, <<"unable to create FFT setup">>)
          /\ status' = EXIT_FAILURE
          /\ pc' = "exited"
          /\ UNCHANGED Setup
    /\ UNCHANGED <<ret, argc, argv1, p, stdin, c, keysSeen, demonstrated,
                   heap, Signal, out, lookupVars, randomVars, toneVars>>
    /\ UNCHANGED demoVars

\* Lines 255-266: the prompt, then the first character that is a newline
\* or no whitespace; a newline or the end of input ends the loop.
Prompt ==
    /\ pc = "prompt"
    /\ out' = Append(out, <<"Please enter a key">>)
    /\ c' = SkipSpace(Unread(stdin)).c
    /\ stdin' = Consumed(stdin, SkipSpace(Unread(stdin)).rest)
    /\ pc' = IF c' = Newline \/ c' = EOF THEN "after_loop" ELSE "lookup"
    /\ UNCHANGED <<ret, argc, argv1, p, keysSeen, demonstrated, Setup, heap,
                   Signal, err, status, lookupVars, randomVars, toneVars>>
    /\ UNCHANGED demoVars

\* Lines 268-273: the key is looked up and, when the first frequency is not
\* zero, Demonstrate is called.
LookupInteractive ==
    /\ pc = "lookup"
    /\ Key' = toupper(c)
    /\ \E oob \in Garbage : F' = ConvertKeyToFrequencies(Key', oob)
    /\ tableReads' = ConvertReads(Key')
    /\ keysSeen' = Append(keysSeen, c)
    /\ IF F'[1] # 0
       THEN /\ demonstrated' = Append(demonstrated, c)
            /\ pc' = "malloc_signal"
            /\ ret' = "skip_line"
       ELSE /\ pc' = "skip_line"
            /\ UNCHANGED <<demonstrated, ret>>
    /\ UNCHANGED <<argc, argv1, p, stdin, c, Setup, heap, Signal, out, err,
                   status, randomVars, toneVars>>
    /\ UNCHANGED demoVars

\* Lines 275-282: the rest of the line is skipped; the end of input ends
\* the loop.
SkipRestOfLine ==
    /\ pc = "skip_line"
    /\ c' = SkipLine(Unread(stdin)).c
    /\ stdin' = Consumed(stdin, SkipLine(Unread(stdin)).rest)
    /\ pc' = IF c' = EOF THEN "after_loop" ELSE "prompt"
    /\ UNCHANGED <<ret, argc, argv1, p, keysSeen, demonstrated, Setup, heap,
                   Signal, out, err, status, lookupVars, randomVars, toneVars>>
    /\ UNCHANGED demoVars

\* Lines 285-287: the cursor is not left in the middle of a line.
AfterLoop ==
    /\ pc = "after_loop"
    /\ out' = IF c # Newline THEN Append(out, <<"newline">>) ELSE out
    /\ pc' = "destroy"
    /\ UNCHANGED <<ret, argc, argv1, p, stdin, c, keysSeen, demonstrated,
                   Setup, heap, Signal, err, status, lookupVars, randomVars,
                   toneVars>>
    /\ UNCHANGED demoVars

\* Lines 293-307: while *p is not the terminator, the key *p is looked up
\* and either demonstrated or reported as not recognized; afterError is
\* where control goes after the report.
ArgKey(afterError) ==
    /\ pc = "arg_loop"
    /\ IF p < Len(argv1)
       THEN /\ Key' = toupper(argv1[p + 1])
            /\ \E oob \in Garbage : F' = ConvertKeyToFrequencies(Key', oob)
            /\ tableReads' = ConvertReads(Key')
            /\ keysSeen' = Append(keysSeen, argv1[p + 1])
            /\ IF F'[1] # 0
               THEN /\ out' = Append(out, <<"Simulating key", argv1[p + 1]>>)
                    /\ demonstrated' = Append(demonstrated, argv1[p + 1])
                    /\ pc' = "malloc_signal"
                    /\ ret' = "arg_next"
                    /\ UNCHANGED err
               ELSE /\ err' = Append(err, <<"key not recognized", argv1[p + 1]>>)
                    /\ pc' = afterError
                    /\ UNCHANGED <<out, demonstrated, ret>>
       ELSE /\ pc' = "destroy"
            /\ UNCHANGED <<Key, F, tableReads, keysSeen, demonstrated, out,
                           err, ret>>
    /\ UNCHANGED <<argc, argv1, p, stdin, c, Setup, heap, Signal, status,
                   randomVars, toneVars>>
    /\ UNCHANGED demoVars

\* The loop of lines 293-307 with a break after the report of an
\* unrecognized key.
ArgLoopBreaks == ArgKey("destroy")

\* The loop as written: after the report, the for statement's ++p.
ArgLoop == ArgKey("arg_next")

\* Line 293: ++p.
ArgNext ==
    /\ pc = "arg_next"
    /\ p' = p + 1
    /\ pc' = "arg_loop"
    /\ UNCHANGED <<ret, argc, argv1, stdin, c, keysSeen, demonstrated, Setup,
                   heap, Signal, out, err, status, lookupVars, randomVars,
                   toneVars>>
    /\ UNCHANGED demoVars

\* The usage branch with return 0 in place of exit(EXIT_FAILURE).
UsageReturnsZero ==
    /\ pc = "usage"
    /\ err' = Append(err, <<"Usage">>)
    /\ status' = 0
    /\ pc' = "exited"
    /\ UNCHANGED <<ret, argc, argv1, p, stdin, c, keysSeen, demonstrated,
                   Setup, heap, Signal, out, lookupVars, randomVars, toneVars>>
    /\ UNCHANGED demoVars

\* Lines 310-317: too many arguments.
Usage ==
    /\ pc = "usage"
    /\ err' = Append(err, <<"Usage">>)
    /\ status' = EXIT_FAILURE
    /\ pc' = "exited"
    /\ UNCHANGED <<ret, argc, argv1, p, stdin, c, keysSeen, demonstrated,
                   Setup, heap, Signal, out, lookupVars, randomVars, toneVars>>
    /\ UNCHANGED demoVars

\* Lines 319-322: the setup is destroyed and main returns 0.
Destroy ==
    /\ pc = "destroy"
    /\ Setup' = "destroyed"
    /\ status' = 0
    /\ pc' = "exited"
    /\ UNCHANGED <<ret, argc, argv1, p, stdin, c, keysSeen, demonstrated,
                   heap, Signal, out, err, lookupVars, randomVars, toneVars>>
    /\ UNCHANGED demoVars

Startup == InitializeRandom \/ CreateSetup

Interactive == Prompt \/ LookupInteractive \/ SkipRestOfLine \/ AfterLoop

Argument == ArgLoop \/ ArgNext

Next == Startup \/ Interactive \/ Argument \/ Usage \/ Demonstrate \/ Destroy

Spec == Init /\ [][Next]_vars

\* The program with one argument of one character, for every character a
\* string can hold.
InitOneKey ==
    /\ InitMain({<<ch>> : ch \in 1 .. 127}, {<<>>})
    /\ argc = 2

NextOneKey == Startup \/ Argument \/ Demonstrate \/ Destroy

SpecOneKey == InitOneKey /\ [][NextOneKey]_vars

\* Characters of the lines of an interactive session: '1', space and
\* newline.
LineChars == {49, 32, Newline}

\* The program without arguments, on every input made of keys, white space
\* and newlines.  The process is scheduled until it exits: a step that is
\* possible is taken.
InitInteractive ==
    /\ InitMain({<<>>}, Strings(LineChars, MaxInput))
    /\ argc = 1

NextInteractive == Startup \/ Interactive \/ Demonstrate \/ Destroy

SpecInteractive ==
    InitInteractive /\ [][NextInteractive]_vars /\ WF_vars(NextInteractive)

---------------------------------------------------------------------------
(* Properties of ConvertKeyToFrequencies, under SpecLookup. *)

LowGroup == {1209, 1336, 1477, 1633}

HighGroup == {697, 770, 852, 941}

\* C3: for the symbol at position i (0..15) of "123A456B789C*0#D" the call
\* returns the pair (DTMF0[i mod 4], DTMF1[i div 4]), with DTMF0 =
\* {1209,1336,1477,1633} and DTMF1 = {697,770,852,941}.
C3_RowMajorPair ==
    pc = "looked" =>
        \A i \in 0 .. 15 :
            Key = <<49, 50, 51, 65, 52, 53, 54, 66,
                    55, 56, 57, 67, 42, 48, 35, 68>>[i + 1]
            => F = << <<1209, 1336, 1477, 1633>>[(i % 4) + 1],
                      <<697, 770, 852, 941>>[(i \div 4) + 1] >>

\* The key 'D', the last of the alphabet, has been looked up.
C3_Witness == pc = "looked" /\ Key = 68 /\ F = <<1633, 941>>

\* C4: for every value of type char that is not one of the 16 symbols, the
\* null character included, the call returns the pair (0, 0) and reads no
\* element of DTMF0 or DTMF1; no valid symbol gets the pair (0, 0).
C4_UnknownGivesSentinel ==
    /\ (pc = "looked" /\ Key \notin Symbols)
           => (F = <<0, 0>> /\ tableReads = {})
    /\ (pc = "looked" /\ Key \in Symbols) => F # <<0, 0>>

\* C5: on the 16 symbols the lookup is a bijection onto the 16 pairs of
\* DTMF0 x DTMF1: the pair returned is in LowGroup x HighGroup, no other
\* symbol gets the same pair, and every pair is some symbol's.
C5_Bijection ==
    (pc = "looked" /\ Key \in Symbols) =>
        /\ F \in LowGroup \X HighGroup
        /\ \A k \in Symbols \ {Key} :
               \A oob \in Garbage : ConvertKeyToFrequencies(k, oob) # F
        /\ \A pair \in LowGroup \X HighGroup :
               \E k \in Symbols : ConvertKeyToFrequencies(k, 0) = pair

\* The key '#' has been looked up.
C5_Witness == pc = "looked" /\ Key = 35 /\ F = <<1477, 941>>

---------------------------------------------------------------------------
(* Properties of FindTone, under SpecFindTone. *)

\* The squared magnitude FindTone computed for candidate i (from 1).
SquaredMagnitude(i) ==
    (binsRead[i].re * binsRead[i].re) + (binsRead[i].im * binsRead[i].im)

\* C2: on a non-empty candidate list FindTone returns the index of a
\* candidate whose bin has the greatest squared magnitude re*re + im*im
\* (the parts being those of BufferMemory at the bin), and the lowest such
\* index when several candidates share the greatest value.
C2_FirstGreatest ==
    (pc = "found" /\ Frequencies # <<>>) =>
        /\ Tone0 \in 0 .. Len(Frequencies) - 1
        /\ \A i \in DOMAIN binsRead :
               SquaredMagnitude(i) <= SquaredMagnitude(Tone0 + 1)
        /\ \A i \in 1 .. Tone0 :
               SquaredMagnitude(i) < SquaredMagnitude(Tone0 + 1)
        /\ \A i \in DOMAIN binsRead :
               binsRead[i].index < SampleLength \div 2 =>
                   /\ binsRead[i].re = BufferMemory[binsRead[i].index]
                   /\ binsRead[i].im =
                          BufferMemory[(SampleLength \div 2) + binsRead[i].index]

\* Of four candidates the second and the fourth share the greatest value,
\* and the second is returned.
C2_Witness ==
    /\ pc = "found"
    /\ Len(binsRead) = 4
    /\ Tone0 = 1
    /\ SquaredMagnitude(2) = SquaredMagnitude(4)
    /\ SquaredMagnitude(1) < SquaredMagnitude(2)
    /\ SquaredMagnitude(3) < SquaredMagnitude(2)

\* floor(f * SampleLength / SamplingFrequency + 1/2) for the frequency f.
NearestHalfUp(f) ==
    ((2 * f.num * SampleLength) + (f.den * SamplingFrequency))
        \div (2 * f.den * SamplingFrequency)

\* The bins of the eight DTMF frequencies.
DtmfBins ==
    (697 :> 55) @@ (770 :> 60) @@ (852 :> 67) @@ (941 :> 74) @@
    (1209 :> 95) @@ (1336 :> 105) @@ (1477 :> 116) @@ (1633 :> 128)

\* C6: the bin index FindTone computes for the candidate frequency f is
\* the nearest integer to f * SampleLength / SamplingFrequency, halves
\* rounded up; 1209 Hz maps to bin 95 and the eight DTMF frequencies map
\* to eight distinct bins.
C6_BinIndex ==
    pc = "found" =>
        /\ \A i \in DOMAIN binsRead :
               /\ binsRead[i].index = NearestHalfUp(Frequencies[i])
               /\ \A f \in DOMAIN DtmfBins :
                      Frequencies[i] = Hz(f) => binsRead[i].index = DtmfBins[f]
        /\ Cardinality({DtmfBins[f] : f \in DOMAIN DtmfBins}) = 8
        /\ Cardinality({BinIndexOf[Hz(DTMF0[i])] : i \in 1 .. 4}
                       \cup {BinIndexOf[Hz(DTMF1[i])] : i \in 1 .. 4}) = 8

\* FindTone has computed bin 48 for the frequency of 47.5 bin spacings, and
\* bins 95, 105, 116 and 128 for DTMF0.
C6_Witness ==
    /\ pc = "found"
    /\ \/ /\ Frequencies = <<[num |-> 190 * Nyquist, den |-> 2 * SampleLength]>>
          /\ binsRead[1].index = 48
       \/ /\ Frequencies = HzList(DTMF0)
          /\ [i \in 1 .. 4 |-> binsRead[i].index] = <<95, 105, 116, 128>>

---------------------------------------------------------------------------
(* Properties of Random, under SpecRandom. *)

\* The bytes of a 32-bit word, least significant first.
Bytes(s) ==
    <<s.lo % Pow2(8), s.lo \div Pow2(8), s.hi % Pow2(8), s.hi \div Pow2(8)>>

\* (1664525 * s + 1013904223) mod 2^32 by schoolbook multiplication on
\* bytes: 1664525 is 0x19660D and 1013904223 is 0x3C6EF35F.
Lcg32(s) ==
    LET b  == Bytes(s)
        t0 == (13 * b[1]) + 95
        t1 == (13 * b[2]) + (102 * b[1]) + 243 + (t0 \div 256)
        t2 == (13 * b[3]) + (102 * b[2]) + (25 * b[1]) + 110 + (t1 \div 256)
        t3 == (13 * b[4]) + (102 * b[3]) + (25 * b[2]) + 60 + (t2 \div 256)
    IN  [hi |-> ((t3 % 256) * 256) + (t2 % 256),
         lo |-> ((t1 % 256) * 256) + (t0 % 256)]

\* The Seed after 1..10 calls from Seed = 0, and Seed >> 8 for each.
ReferenceSeeds ==
    << [hi |-> 15470, lo |-> 62303], [hi |-> 18256, lo |-> 10546],
       [hi |-> 53708, lo |-> 63209], [hi |-> 43769, lo |-> 21300],
       [hi |-> 25170, lo |-> 58627], [hi |-> 40750, lo |-> 50822],
       [hi |-> 22526, lo |-> 27693], [hi |-> 41945, lo |-> 24488],
       [hi |-> 33277, lo |-> 48871], [hi |-> 38128, lo |-> 44826] >>

ReferenceValues ==
    << 3960563, 4673577, 13749494, 11204947, 6443749,
       10432198, 5766764, 10738015, 8519102, 9760943 >>

\* What holds of the values returned so far.
RandomState ==
    /\ \A k \in DOMAIN returned : returned[k] \in 0 .. Pow2(24) - 1
    /\ returned # <<>> =>
           /\ returned[Len(returned)] \div 256 = Seed.hi
           /\ returned[Len(returned)] % 256 = Seed.lo \div 256
    /\ \A n \in DOMAIN ReferenceSeeds :
           (Len(returned) = n /\ Seed = ReferenceSeeds[n])
               => returned = SubSeq(ReferenceValues, 1, n)
    /\ \A k \in DOMAIN returned \cap DOMAIN returnedB :
           returned[k] = returnedB[k]

\* C9: each call of Random replaces Seed by (1664525 * Seed + 1013904223)
\* mod 2^32 and returns (new Seed div 2^8) / 2^24, so the value v returned
\* has v * 2^24 an integer of 0..2^24-1, and two runs from the same Seed
\* return the same sequence (from Seed = 0, the reference sequence).
C9_Random ==
    /\ []RandomState
    /\ [][Seed' # Seed => Seed' = Lcg32(Seed)]_vars

\* Ten values have been drawn from Seed = 0 in both runs.
C9_Witness ==
    /\ pc = "random"
    /\ Len(returned) = 10 /\ Len(returnedB) = 10
    /\ Seed = ReferenceSeeds[10]
    /\ returned = ReferenceValues

---------------------------------------------------------------------------
(* Properties of Demonstrate, under SpecOneKey. *)

\* The elements of BufferMemory that Buffer.realp and Buffer.imagp cover.
RealHalf == {Buffer.realp + k : k \in 0 .. (SampleLength \div 2) - 1}

ImagHalf == {Buffer.imagp + k : k \in 0 .. (SampleLength \div 2) - 1}

\* C10: after the layout conversion, for every k in 0..SampleLength/2-1
\* sample Signal[2k] is in Buffer.realp[k] and sample Signal[2k+1] is in
\* Buffer.imagp[k]; the halves are the disjoint ranges 0..N/2-1 and
\* N/2..N-1 of BufferMemory, and every sample is in exactly one slot.
C10_Layout ==
    pc = "fft" =>
        /\ \A k \in 0 .. (SampleLength \div 2) - 1 :
               /\ BufferMemory[Buffer.realp + k] = Signal[2 * k]
               /\ BufferMemory[Buffer.imagp + k] = Signal[(2 * k) + 1]
        /\ RealHalf = 0 .. (SampleLength \div 2) - 1
        /\ ImagHalf = (SampleLength \div 2) .. SampleLength - 1
        /\ RealHalf \cap ImagHalf = {}
        /\ DOMAIN BufferMemory = RealHalf \cup ImagHalf
        /\ \A i \in DOMAIN Signal :
               Cardinality({a \in DOMAIN BufferMemory :
                               BufferMemory[a] = Signal[i]}) = 1

\* The conversion has run on a synthesized signal: the first sample is in
\* the first slot of the real half, the last in the last of the imaginary.
C10_Witness ==
    /\ pc = "fft"
    /\ heap.BufferMemory = "allocated"
    /\ BufferMemory[0] = Sample(0)
    /\ BufferMemory[SampleLength - 1] = Sample(SampleLength - 1)

\* The transform output in BufferMemory carries energy at the bins of the
\* two frequencies of the pair pair, and nowhere else.
EnergyOnlyAt(pair) ==
    LET b0 == BinIndexOf[Hz(pair[1])]
        b1 == BinIndexOf[Hz(pair[2])]
    IN  /\ \A a \in DOMAIN BufferMemory :
               BufferMemory[a] # 0 => a \in BinCells(b0) \cup BinCells(b1)
        /\ \E a \in BinCells(b0) : BufferMemory[a] # 0
        /\ \E a \in BinCells(b1) : BufferMemory[a] # 0

\* C1: for each of the 16 symbols, when the transform output carries energy
\* only at the bins of the symbol's two frequencies, the two calls of
\* FindTone return the indices of these frequencies and the reported key
\* Keys[Tone1*4 + Tone0] is the symbol.
C1_NoiselessRecovery ==
    (pc = "free" /\ Key \in Symbols /\ EnergyOnlyAt(F)) =>
        /\ DTMF0[Tone0 + 1] = F[1]
        /\ DTMF1[Tone1 + 1] = F[2]
        /\ ReportedKey = Key

\* C14: for every candidate frequency of DTMF0 and DTMF1 the bin index
\* that FindTone computes in Demonstrate is in 0..SampleLength/2-1, so that
\* Buffer.realp[index] and Buffer.imagp[index] are elements of BufferMemory
\* and Buffer.realp[index] is no element of the imaginary half.
C14_ProbesInsideBuffer ==
    pc = "free" =>
        /\ Len(binsRead) = NumberOf(DTMF0) + NumberOf(DTMF1)
        /\ \A i \in DOMAIN binsRead :
               /\ binsRead[i].index \in 0 .. (SampleLength \div 2) - 1
               /\ Buffer.realp + binsRead[i].index \in DOMAIN BufferMemory
               /\ Buffer.imagp + binsRead[i].index \in DOMAIN BufferMemory
               /\ Buffer.realp + binsRead[i].index \notin ImagHalf

---------------------------------------------------------------------------
(* Properties of main, under Spec. *)

\* The positions of the program inside Demonstrate.
DemonstrateSteps ==
    {"malloc_signal", "synthesize", "malloc_buffer", "ctoz", "fft",
     "find_tones", "free"}

\* The character ch, upper-cased, is one of the 16 symbols.
InAlphabet(ch) == toupper(ch) \in Symbols

\* C7: in either input mode Demonstrate is not invoked for a character
\* that, upper-cased, is not one of the 16 symbols: while the program is in
\* Demonstrate the key looked up is a symbol, every character demonstrated
\* so far is one, and a step that looks up such a character allocates
\* nothing, leaves Seed unchanged and does not enter Demonstrate.
C7_UnknownNotDemonstrated ==
    /\ [](pc \in DemonstrateSteps => Key \in Symbols)
    /\ [](\A i \in DOMAIN demonstrated : InAlphabet(demonstrated[i]))
    /\ [][(pc \in {"lookup", "arg_loop"} /\ Key' \notin Symbols)
              => (/\ pc' \notin DemonstrateSteps
                  /\ Seed' = Seed
                  /\ heap' = heap)]_vars

\* The lines of the first n bytes of s, each with the newline that ends it;
\* the last is the text after the last newline, if there is any.
RECURSIVE Lines(_, _)
Lines(s, n) ==
    IF n = 0 THEN <<>>
    ELSE LET before == Lines(s, n - 1)
         IN  IF n > 1 /\ s[n - 1] # Newline
             THEN [before EXCEPT ![Len(before)] = Append(@, s[n])]
             ELSE Append(before, <<s[n]>>)

\* The first character of a line that is no white space, or EOF.
FirstKey(line) ==
    LET t == SelectSeq(line, LAMBDA ch : ~isspace(ch))
    IN  IF t = <<>> THEN EOF ELSE Head(t)

\* The keys of the interactive input s: the first character that is no
\* white space of each line before the first line that has none.
InteractiveKeys(s) ==
    LET first == [i \in DOMAIN Lines(s, Len(s)) |->
                     FirstKey(Lines(s, Len(s))[i])]
        blank == {i \in DOMAIN first : first[i] = EOF}
        n     == IF blank = {} THEN Len(first)
                 ELSE (CHOOSE i \in blank : \A j \in blank : i <= j) - 1
    IN  SubSeq(first, 1, n)

\* The keys that lines of err report as not recognized, in order.
ReportedUnrecognized ==
    LET lines == SelectSeq(err, LAMBDA l : l[1] = "key not recognized")
    IN  [i \in DOMAIN lines |-> lines[i][2]]

\* The keys of the sequence ks that are not in the alphabet, in order.
Unrecognized(ks) == SelectSeq(ks, LAMBDA k : ~InAlphabet(k))

\* The keys of the sequence ks that are in the alphabet, in order.
Recognized(ks) == SelectSeq(ks, LAMBDA k : InAlphabet(k))

\* The keys of the run's input, in input order.
InputKeys == IF argc = 2 THEN argv1 ELSE InteractiveKeys(stdin.buf)

\* The run goes on after every key: the keys looked up are a prefix of the
\* keys of the input and all of them when main returns 0, every key of the
\* alphabet among them has been demonstrated, and when the program exits
\* with a failure its last error line is not about a key.
ContinuesAfterEveryKey ==
    /\ Len(keysSeen) <= Len(InputKeys)
    /\ keysSeen = SubSeq(InputKeys, 1, Len(keysSeen))
    /\ (pc = "exited" /\ status = 0) => keysSeen = InputKeys
    /\ Recognized(demonstrated) = Recognized(keysSeen)
    /\ status = EXIT_FAILURE => err[Len(err)][1] # "key not recognized"

\* C8 as stated: in both modes every unrecognized key is reported by an
\* error line for that key, and processing continues with the next key in
\* input order; an unrecognized key never ends the run nor keeps a later
\* valid key from being processed.
C8_EveryUnrecognizedReported ==
    /\ ReportedUnrecognized = Unrecognized(keysSeen)
    /\ ContinuesAfterEveryKey

\* C8: in the one-argument mode every unrecognized key is reported by an
\* error line for that key, in input order; in the interactive mode no key
\* is reported; in both modes processing continues with the next key in
\* input order, and an unrecognized key never ends the run nor keeps a
\* later valid key from being processed.
C8_ReportedInArgumentModeOnly ==
    /\ argc = 2 => ReportedUnrecognized = Unrecognized(keysSeen)
    /\ argc # 2 => ReportedUnrecognized = <<>>
    /\ ContinuesAfterEveryKey

\* An interactive run has ended after the lines "x" and "1": both keys were
\* looked up, '1' was demonstrated and nothing was reported for 'x'.
C8_Witness ==
    /\ pc = "exited"
    /\ status = 0
    /\ argc = 1
    /\ stdin.buf = <<120, Newline, 49>>
    /\ keysSeen = <<120, 49>>
    /\ demonstrated = <<49>>
    /\ err = <<>>

\* C11: the FFT setup is created before any key is processed and is the
\* one every call of Demonstrate gets, it is not used after it has been
\* destroyed, and it has been released whenever the process has ended, on
\* the normal path and on every fatal error exit.
C11_SetupLifecycle ==
    /\ (keysSeen # <<>> \/ pc \in DemonstrateSteps) => Setup = "created"
    /\ Setup = "destroyed" => pc = "exited"
    /\ (pc = "exited" /\ Setup # "none") => Setup = "destroyed"

\* The error lines that report a failed allocation or a failed creation of
\* the FFT setup.
ResourceFailures ==
    SelectSeq(err, LAMBDA l : l[1] \in {"unable to allocate memory",
                                         "unable to create FFT setup"})

\* C12 as stated: the exit status is non-zero exactly when an allocation
\* failed or the FFT setup could not be created, and zero in every other
\* run, whatever the number of arguments and the keys processed.
C12_StatusOnResourceFailureOnly ==
    pc = "exited" => (status # 0 <=> ResourceFailures # <<>>)

\* C12: the exit status is non-zero exactly when an allocation failed, the
\* FFT setup could not be created, or more than one argument was given
\* (the usage error); it is zero in every other run, whatever keys
\* (recognized, unrecognized or misdetected) were processed.
C12_StatusOnFailureOrUsage ==
    /\ pc = "exited" =>
           /\ status \in {0, EXIT_FAILURE}
           /\ status # 0 <=> (ResourceFailures # <<>> \/ argc > 2)
    /\ pc # "exited" => status = -1

\* A run with two arguments has ended with the usage message and a failure
\* status, the FFT setup having been created.
C12_Witness ==
    /\ pc = "exited"
    /\ argc = 3
    /\ Setup = "created"
    /\ err = << <<"Usage">> >>
    /\ status = EXIT_FAILURE

---------------------------------------------------------------------------
(* Properties of the interactive loop, under SpecInteractive. *)

\* The number of bytes in the first i lines of the sequence of lines ls.
RECURSIVE LineEnd(_, _)
LineEnd(ls, i) == IF i = 0 THEN 0 ELSE Len(ls[i]) + LineEnd(ls, i - 1)

\* The number of bytes of the input s up to the end of its first blank
\* line, or to its end when it has no blank line.
StopPosition(s) ==
    LET ls    == Lines(s, Len(s))
        blank == {i \in DOMAIN ls : FirstKey(ls[i]) = EOF}
    IN  IF blank = {} THEN Len(s)
        ELSE LineEnd(ls, CHOOSE i \in blank : \A j \in blank : i <= j)

\* The number of prompts printed so far.
PromptCount ==
    Len(SelectSeq(out, LAMBDA l : l[1] = "Please enter a key"))

\* What C13 says of every state of an interactive run.
OneKeyPerLine ==
    /\ Len(keysSeen) <= Len(InteractiveKeys(stdin.buf))
    /\ keysSeen = SubSeq(InteractiveKeys(stdin.buf), 1, Len(keysSeen))
    /\ PromptCount \in {Len(keysSeen), Len(keysSeen) + 1}
    /\ pc = "lookup" => PromptCount = Len(keysSeen) + 1
    /\ stdin.pos <= StopPosition(stdin.buf)
    /\ (pc = "exited" /\ status = 0) =>
           /\ keysSeen = InteractiveKeys(stdin.buf)
           /\ stdin.pos = StopPosition(stdin.buf)

\* C13: without arguments, on every input the loop prompts before each
\* line, looks up at most one key per line (its first character that is no
\* white space; the rest of the line is discarded), takes the lines in
\* input order and stops at the first blank line or at the end of input:
\* no byte after that point is read, and the run ends.
C13_InteractiveLoop == []OneKeyPerLine /\ <>(pc = "exited")

\* The run on the line "1" and a blank line has ended: one key was looked
\* up, two prompts were printed and the whole input was read.
C13_Witness ==
    /\ pc = "exited"
    /\ status = 0
    /\ stdin = [buf |-> <<49, Newline, Newline>>, pos |-> 3]
    /\ keysSeen = <<49>>
    /\ PromptCount = 2

---------------------------------------------------------------------------
(* Properties of the buffers of Demonstrate, under Spec. *)

\* The positions of Demonstrate at which Signal is written or read.
SignalInUse == {"synthesize", "malloc_buffer", "ctoz", "fft", "find_tones",
                "free"}

\* The positions of Demonstrate at which BufferMemory is written or read.
BufferInUse == {"ctoz", "fft", "find_tones", "free"}

\* The number of transforms run so far.
TransformCount == Len(SelectSeq(out, LAMBDA l : l[1] = "Analyzing signal"))

\* An allocation has failed.
AllocationFailed ==
    \E i \in DOMAIN err : err[i][1] = "unable to allocate memory"

\* C15: in every call of Demonstrate Signal and BufferMemory are allocated
\* before they are written, are read by the classification while they are
\* allocated, and are both freed when the call returns; after any sequence
\* of processed keys no buffer is allocated; an allocation failure ends
\* the process at once, without the transform being run for that key.
C15_BufferLifecycle ==
    /\ pc \in SignalInUse =>
           (heap.Signal = "allocated" /\ DOMAIN Signal = 0 .. SampleLength - 1)
    /\ pc \in BufferInUse =>
           /\ heap.BufferMemory = "allocated"
           /\ DOMAIN BufferMemory = 0 .. SampleLength - 1
    /\ pc = "malloc_signal" =>
           (heap.Signal # "allocated" /\ heap.BufferMemory # "allocated")
    /\ (pc \notin DemonstrateSteps /\ ~AllocationFailed) =>
           /\ heap.Signal = heap.BufferMemory
           /\ heap.Signal = (IF demonstrated = <<>> THEN "none" ELSE "freed")
           /\ Signal = <<>> /\ BufferMemory = <<>>
           /\ TransformCount = Len(demonstrated)
    /\ AllocationFailed =>
           /\ pc = "exited" /\ status = EXIT_FAILURE
           /\ err[Len(err)][1] = "unable to allocate memory"
           /\ TransformCount = Len(demonstrated) - 1

\* An argument of two keys has been processed: two transforms were run and
\* both buffers are freed.
C15_Witness ==
    /\ pc = "exited"
    /\ status = 0
    /\ Len(demonstrated) = 2
    /\ TransformCount = 2
    /\ heap = [Signal |-> "freed", BufferMemory |-> "freed"]

---------------------------------------------------------------------------
(* DemonstrateConvolution: DemonstrateConvolution.c lines 19-139. *)

\* Iterations of the timing loop.
ConvolutionIterations == 1000

\* The bitwise and of a and b, numbers of n bits.
RECURSIVE BitAnd(_, _, _)
BitAnd(a, b, n) ==
    IF n = 0 THEN 0
    ELSE (2 * BitAnd(a \div 2, b \div 2, n - 1)) + ((a % 2) * (b % 2))

\* x & -4u for x below 2^31: -4u is the 32-bit word 2^32 - 4, whose halves
\* are 2^16 - 1 and 2^16 - 4; as a vDSP_Length its higher bits are zero.
AndMinusFour(x) ==
    (BitAnd(x \div HalfWord, HalfWord - 1, 16) * HalfWord)
        + BitAnd(x % HalfWord, HalfWord - 4, 16)

\* A signal length without the filter's share.
ResultLengthOnly(fl, rl) == rl

\* (FilterLength+3 & -4u) + ResultLength, in which + binds before &.
PaddedSignalLength(fl, rl) == AndMinusFour(fl + 3) + rl

\* The indices of the signal that vDSP_conv uses for rl results and a
\* filter of fl elements: result n is the sum over q of
\* signal[(n + q) * stride] * filter[q * filterStride].
ConvSignalIndices(stride, rl, fl) ==
    {(n + q) * stride : n \in 0 .. rl - 1, q \in 0 .. fl - 1}

\* The indices of Filter that vDSP_conv uses when it is passed the address
\* of Filter[start] and the stride filterStride.
ConvFilterIndices(start, filterStride, fl) ==
    {start + (q * filterStride) : q \in 0 .. fl - 1}

\* The filter and result lengths: those of the code and small ones.
FilterLengths == (1 .. MaxFilter) \cup {256}

ResultLengths == (1 .. MaxResult) \cup {2048}

InitConvolution ==
    /\ pc = "conv_begin"
    /\ FilterLength \in FilterLengths
    /\ ResultLength \in ResultLengths
    /\ SignalLength = PaddedSignalLength(FilterLength, ResultLength)
    /\ blocks = <<>>
    /\ signalUsed = {}
    /\ filterUsed = {}
    /\ iter = 0
    /\ out = <<>>
    /\ err = <<>>
    /\ status = -1
    /\ ret = "none" /\ argc = 1 /\ argv1 = <<>> /\ p = 0 /\ c = 0
    /\ stdin = [buf |-> <<>>, pos |-> 0]
    /\ keysSeen = <<>> /\ demonstrated = <<>> /\ Setup = "none"
    /\ heap = [Signal |-> "none", BufferMemory |-> "none"]
    /\ Signal = <<>>
    /\ LookupIdle /\ RandomIdle /\ ToneIdle /\ FFTIdle

\* What a step of DemonstrateConvolution leaves alone.
convFrame == <<ret, argc, argv1, p, stdin, c, keysSeen, demonstrated, Setup,
               heap, Signal, lookupVars, randomVars, toneVars, FilterLength,
               ResultLength, SignalLength, fftVars>>

\* Lines 65-76: the three arrays are allocated; the process exits when an
\* allocation fails.
ConvAllocate ==
    /\ pc = "conv_begin"
    /\ out' = Append(out, <<"Begin">>)
    /\ \/ /\ \E g \in Garbage :
                 blocks' = [Signal |-> [i \in 0 .. SignalLength - 1 |-> g],
                            Filter |-> [i \in 0 .. FilterLength - 1 |-> g],
                            Result |-> [i \in 0 .. ResultLength - 1 |-> g]]
          /\ pc' = "conv_init"
          /\ UNCHANGED <<err, status>>
       \/ /\ err' = Append(err, <<"failed to allocate memory">>)
          /\ status' = EXIT_FAILURE
          /\ pc' = "exited"
          /\ UNCHANGED blocks
    /\ UNCHANGED <<iter, signalUsed, filterUsed, convFrame>>

\* Lines 78-89: every element of Signal and of Filter is set to 1.0.
ConvInitialize ==
    /\ pc = "conv_init"
    /\ blocks' = [blocks EXCEPT
                     !.Signal = [i \in 0 .. SignalLength - 1 |-> 1],
                     !.Filter = [i \in 0 .. FilterLength - 1 |-> 1]]
    /\ pc' = "conv_correlate"
    /\ UNCHANGED <<iter, out, err, status, signalUsed, filterUsed, convFrame>>

\* One call vDSP_conv(Signal, 1, Filter + start, filterStride, Result, 1,
\* ResultLength, FilterLength): result n is the sum of the fl products,
\* each 1 * 1, and whatever the machine yields when an element used is
\* outside its block.
ConvCall(start, filterStride) ==
    /\ signalUsed' = signalUsed
                         \cup ConvSignalIndices(1, ResultLength, FilterLength)
    /\ filterUsed' = filterUsed
                         \cup ConvFilterIndices(start, filterStride,
                                                FilterLength)
    /\ IF /\ signalUsed' \subseteq DOMAIN blocks.Signal
          /\ filterUsed' \subseteq DOMAIN blocks.Filter
       THEN blocks' = [blocks EXCEPT
                          !.Result = [n \in 0 .. ResultLength - 1 |->
                                         FilterLength]]
       ELSE \E oob \in Garbage :
                blocks' = [blocks EXCEPT
                              !.Result = [n \in 0 .. ResultLength - 1 |->
                                             oob]]

\* Lines 92-93: the correlation.
ForwardCall == ConvCall(0, 1)

\* Lines 100-101: the convolution, with the filter passed backward.
ReversedCall == ConvCall(FilterLength - 1, -1)

ConvCorrelate ==
    /\ pc = "conv_correlate"
    /\ ForwardCall
    /\ pc' = "conv_convolve"
    /\ UNCHANGED <<iter, out, err, status, convFrame>>

ConvConvolve ==
    /\ pc = "conv_convolve"
    /\ ReversedCall
    /\ iter' = 0
    /\ pc' = "conv_time"
    /\ UNCHANGED <<out, err, status, convFrame>>

\* Lines 109-111: one iteration of the timing loop.  The iterations after
\* the first MaxTimed repeat the same call on the same data.
ConvTimed ==
    /\ pc = "conv_time"
    /\ iter < ConvolutionIterations /\ iter < MaxTimed
    /\ ForwardCall
    /\ iter' = iter + 1
    /\ UNCHANGED <<pc, out, err, status, convFrame>>

\* Lines 113-131: the loop has ended and the time is reported.
ConvReport ==
    /\ pc = "conv_time"
    /\ ~(iter < ConvolutionIterations /\ iter < MaxTimed)
    /\ iter' = ConvolutionIterations
    /\ out' = Append(out, <<"convolution takes">>)
    /\ pc' = "conv_free"
    /\ UNCHANGED <<err, status, blocks, signalUsed, filterUsed, convFrame>>

\* Lines 133-139: the arrays are freed.
ConvFree ==
    /\ pc = "conv_free"
    /\ blocks' = <<>>
    /\ out' = Append(out, <<"End">>)
    /\ pc' = "conv_done"
    /\ UNCHANGED <<iter, err, status, signalUsed, filterUsed, convFrame>>

DemonstrateConvolution ==
    \/ ConvAllocate
    \/ ConvInitialize
    \/ ConvCorrelate
    \/ ConvConvolve
    \/ ConvTimed
    \/ ConvReport
    \/ ConvFree

NextConvolution == DemonstrateConvolution

SpecConvolution == InitConvolution /\ [][NextConvolution]_vars

---------------------------------------------------------------------------
(* Properties of DemonstrateConvolution, under SpecConvolution. *)

\* The least multiple of four that is not below n.
RoundedUpToFour(n) == CHOOSE m \in n .. n + 3 : m % 4 = 0

\* The positions of DemonstrateConvolution after the first call of
\* vDSP_conv, and those after the call with the filter reversed.
AfterCorrelation == {"conv_convolve", "conv_time", "conv_free", "conv_done"}

AfterConvolution == {"conv_time", "conv_free", "conv_done"}

\* C16: SignalLength is FilterLength rounded up to a multiple of four plus
\* ResultLength, the block Signal has that many elements, and this covers
\* every element the calls of vDSP_conv use: the signal indices used are
\* the sums i + j with 0 <= i < ResultLength and 0 <= j < FilterLength, all
\* below SignalLength, and the call with the filter reversed (from
\* Filter + FilterLength - 1 with stride -1) uses Filter[0..FilterLength-1]
\* only.
C16_SignalCoversUse ==
    /\ SignalLength = RoundedUpToFour(FilterLength) + ResultLength
    /\ (ResultLength - 1) + (FilterLength - 1) < SignalLength
    /\ blocks # <<>> =>
           /\ DOMAIN blocks.Signal = 0 .. SignalLength - 1
           /\ DOMAIN blocks.Filter = 0 .. FilterLength - 1
    /\ signalUsed \subseteq 0 .. SignalLength - 1
    /\ filterUsed \subseteq 0 .. FilterLength - 1
    /\ pc \in AfterCorrelation =>
           signalUsed = 0 .. (ResultLength + FilterLength) - 2
    /\ pc \in AfterConvolution => filterUsed = 0 .. FilterLength - 1
    /\ pc \in {"conv_convolve", "conv_time", "conv_free"} =>
           \A n \in DOMAIN blocks.Result : blocks.Result[n] = FilterLength

\* Both calls have been made with the lengths of the code: a filter of 256
\* elements, 2048 results and a signal of 2304 elements, of which the
\* calls used the first 2303.
C16_Witness ==
    /\ pc = "conv_time"
    /\ FilterLength = 256
    /\ ResultLength = 2048
    /\ SignalLength = 2304
    /\ signalUsed = 0 .. 2302
    /\ filterUsed = 0 .. 255

---------------------------------------------------------------------------
(* DemonstrateFFT: DemonstrateFFT.c.  An element of an array is 0 when it
   is zero and 1 when it is not; an element that was never assigned holds
   whatever malloc left there. *)

FFTIterations == 10000

Log2N == 10

\* N of DemonstrateFFT.c, the number of elements of a signal.
FFTN == 2 ^ Log2N

\* A pointer to float: a block and an offset in it.
Pointer(b, o) == [block |-> b, off |-> o]

\* A DSPSplitComplex.
SplitComplex(re, im) == [realp |-> re, imagp |-> im]

\* ptr[k].
At(mem, ptr, k) == mem[ptr.block][ptr.off + k]

\* The first n elements of the vector v, real and imaginary.
Elements(mem, v, n) ==
    [realp |-> [k \in 0 .. n - 1 |-> At(mem, v.realp, k)],
     imagp |-> [k \in 0 .. n - 1 |-> At(mem, v.imagp, k)]]

\* ptr[k] = vals[k] for every k of vals.
StoreAt(mem, ptr, vals) ==
    [mem EXCEPT ![ptr.block] =
        [j \in DOMAIN @ |->
            IF (j - ptr.off) \in DOMAIN vals THEN vals[j - ptr.off] ELSE @[j]]]

\* The vector v receives the elements x.
Store(mem, v, x) == StoreAt(StoreAt(mem, v.realp, x.realp), v.imagp, x.imagp)

\* The elements that stores to ptr[k], k in idx, assign, added to the
\* record a.
Assign(a, ptr, idx) ==
    [a EXCEPT ![ptr.block] = @ \cup {ptr.off + k : k \in idx}]

AssignVector(a, v, idx) == Assign(Assign(a, v.realp, idx), v.imagp, idx)

\* The elements v.realp[k] and v.imagp[k], k in idx, as <<block, index>>.
Targets(v, idx) ==
    {<<v.realp.block, v.realp.off + k>> : k \in idx}
        \cup {<<v.imagp.block, v.imagp.off + k>> : k \in idx}

\* n elements of value x.
Filled(n, x) == [k \in 0 .. n - 1 |-> x]

\* A forward FFT is linear and invertible: its result is zero exactly when
\* its input is.
Transformed(x) ==
    IF \A part \in DOMAIN x : \A k \in DOMAIN x[part] : x[part][k] = 0
    THEN x
    ELSE [part \in DOMAIN x |-> [k \in DOMAIN x[part] |-> 1]]

\* vDSP_ctoz(Signal, 2, &Z, 1, n): the even elements of the real array go
\* to Z.realp, the odd ones to Z.imagp.
CtozOf(mem, n) ==
    [realp |-> [k \in 0 .. n - 1 |-> mem["Signal"][2 * k]],
     imagp |-> [k \in 0 .. n - 1 |-> mem["Signal"][(2 * k) + 1]]]

\* vDSP_ztoc(&Z, 1, Signal, 2, n): the inverse arrangement.
ZtocOf(x, n) ==
    [j \in 0 .. (2 * n) - 1 |->
        IF j % 2 = 0 THEN x.realp[j \div 2] ELSE x.imagp[j \div 2]]

\* The four demonstrations, in the order DemonstrateFFT calls them.
FFTDemos == <<"zrip", "zrop", "zip", "zop">>

\* Lines 114-124, 129, 157, 162-173, 186, 199-200, 206-207, 221-226.
FFTzrip ==
    [First    |-> {"Signal", "ObservedMemory"},
     Signal   |-> {"Signal"},
     Real     |-> TRUE,
     In       |-> SplitComplex(Pointer("ObservedMemory", 0),
                               Pointer("ObservedMemory", FFTN \div 2)),
     Out      |-> SplitComplex(Pointer("ObservedMemory", 0),
                               Pointer("ObservedMemory", FFTN \div 2)),
     Count    |-> FFTN \div 2,
     Second   |-> {"ExpectedMemory"},
     Expected |-> SplitComplex(Pointer("ExpectedMemory", 0),
                               Pointer("ExpectedMemory", FFTN \div 2)),
     Zeroed   |-> FFTN \div 2,
     Frequency |-> <<79, 296, 143>>,
     Sine     |-> <<0, 1, 1>>,
     Length   |-> FFTN \div 2,
     ZeroSignal |-> {"Signal"},
     WithCtoz |-> TRUE]

\* Lines 272-286, 291, 319, 324-335, 348, 361-362, 368-370.
FFTzrop ==
    [First    |-> {"Signal", "BufferMemory", "ObservedMemory"},
     Signal   |-> {"Signal"},
     Real     |-> TRUE,
     In       |-> SplitComplex(Pointer("BufferMemory", 0),
                               Pointer("BufferMemory", FFTN \div 2)),
     Out      |-> SplitComplex(Pointer("ObservedMemory", 0),
                               Pointer("ObservedMemory", FFTN \div 2)),
     Count    |-> FFTN \div 2,
     Second   |-> {"ExpectedMemory"},
     Expected |-> SplitComplex(Pointer("ExpectedMemory", 0),
                               Pointer("ExpectedMemory", FFTN \div 2)),
     Zeroed   |-> FFTN \div 2,
     Frequency |-> <<48, 243, 300>>,
     Sine     |-> <<1, 1, 1>>,
     Length   |-> FFTN \div 2,
     ZeroSignal |-> {"Signal"},
     WithCtoz |-> FALSE]

\* Lines 421-423, 434, 449, 454-465, 478, 492-493, 499-500.
FFTzip ==
    [First    |-> {"Signal.realp", "Signal.imagp"},
     Signal   |-> {"Signal.realp", "Signal.imagp"},
     Real     |-> FALSE,
     In       |-> SplitComplex(Pointer("Signal.realp", 0),
                               Pointer("Signal.imagp", 0)),
     Out      |-> SplitComplex(Pointer("Signal.realp", 0),
                               Pointer("Signal.imagp", 0)),
     Count    |-> FFTN,
     Second   |-> {"Expected.realp", "Expected.imagp"},
     Expected |-> SplitComplex(Pointer("Expected.realp", 0),
                               Pointer("Expected.imagp", 0)),
     Zeroed   |-> FFTN \div 2,
     Frequency |-> <<400, 623, 931>>,
     Sine     |-> <<1, 1, 1>>,
     Length   |-> FFTN,
     ZeroSignal |-> {"Signal.realp", "Signal.imagp"},
     WithCtoz |-> FALSE]

\* Lines 540-544, 556, 571, 577-588, 601, 615-617.
FFTzop ==
    [First    |-> {"Signal.realp", "Signal.imagp",
                   "Observed.realp", "Observed.imagp"},
     Signal   |-> {"Signal.realp", "Signal.imagp"},
     Real     |-> FALSE,
     In       |-> SplitComplex(Pointer("Signal.realp", 0),
                               Pointer("Signal.imagp", 0)),
     Out      |-> SplitComplex(Pointer("Observed.realp", 0),
                               Pointer("Observed.imagp", 0)),
     Count    |-> FFTN,
     Second   |-> {"Expected.realp", "Expected.imagp"},
     Expected |-> SplitComplex(Pointer("Expected.realp", 0),
                               Pointer("Expected.imagp", 0)),
     Zeroed   |-> FFTN \div 2,
     Frequency |-> <<300, 450, 775>>,
     Sine     |-> <<1, 1, 1>>,
     Length   |-> FFTN,
     ZeroSignal |-> {},
     WithCtoz |-> FALSE]

\* What the code of the demonstration d names: the blocks of its first
\* allocation (First), the blocks of its signal (Signal), whether the
\* signal is a real array passed through vDSP_ctoz (Real), the vectors its FFT call reads and writes (In, Out)
\* and their number of complex elements (Count), the blocks of Expected
\* (Second) and the vector Expected, the bound of the loop that zeroes
\* Expected (Zeroed), the frequencies of the signal, whether N * sin of the
\* phase of each is zero (0) or not (1), the Length passed to
\* CompareComplexVectors, the blocks zeroed before timing (ZeroSignal), and
\* whether a second timing loop with vDSP_ctoz and vDSP_ztoc follows
\* (WithCtoz).
FFTDemo(d) ==
    CASE d = "zrip" -> FFTzrip
      [] d = "zrop" -> FFTzrop
      [] d = "zip"  -> FFTzip
      [] d = "zop"  -> FFTzop

InitFFT ==
    /\ pc = "fft_begin"
    /\ MainIdle
    /\ LookupIdle /\ RandomIdle /\ ToneIdle

\* What a step of DemonstrateFFT leaves alone.
fftFrame == <<ret, argc, argv1, p, stdin, c, keysSeen, demonstrated, heap,
              Signal, lookupVars, randomVars, toneVars, FilterLength,
              ResultLength, SignalLength, signalUsed, filterUsed>>

\* exit(EXIT_FAILURE) after the message msg.
FFTExit(msg) ==
    /\ err' = Append(err, <<msg>>)
    /\ status' = EXIT_FAILURE
    /\ pc' = "exited"

\* Lines 636-646: the setup is created, and the process exits when that
\* fails.
FFTCreateSetup ==
    /\ pc = "fft_begin"
    /\ out' = Append(out, <<"Begin">>)
    /\ \/ /\ Setup' = "created"
          /\ demo' = FFTDemos[1]
          /\ pc' = "fft_alloc"
          /\ UNCHANGED <<err, status>>
       \/ /\ FFTExit("vDSP_create_fftsetup failed")
          /\ UNCHANGED <<Setup, demo>>
    /\ UNCHANGED <<blocks, iter, assigned, expectedRead, timedInput, fftFrame>>

\* The blocks of names, allocated: N elements each, holding whatever the
\* memory held.
Allocated(mem, names, g) ==
    [b \in (DOMAIN mem) \cup names |->
        IF b \in names THEN Filled(FFTN, g[b]) ELSE mem[b]]

Unassigned(a, names) ==
    [b \in (DOMAIN a) \cup names |-> IF b \in names THEN {} ELSE a[b]]

\* The blocks of names, freed.
Freed(mem, names) == [b \in (DOMAIN mem) \ names |-> mem[b]]

\* Lines 111-121, 268-280, 417-429, 536-551: the arrays of the
\* demonstration are allocated.
FFTAllocate ==
    /\ pc = "fft_alloc"
    /\ out' = Append(out, <<"FFT of elements", FFTN>>)
    /\ \/ /\ \E g \in [FFTDemo(demo).First -> Garbage] :
                 blocks' = Allocated(blocks, FFTDemo(demo).First, g)
          /\ assigned' = Unassigned(assigned, FFTDemo(demo).First)
          /\ pc' = "fft_signal"
          /\ UNCHANGED <<err, status>>
       \/ /\ FFTExit("failed to allocate memory")
          /\ UNCHANGED <<blocks, assigned>>
    /\ UNCHANGED <<Setup, demo, iter, expectedRead, timedInput, fftFrame>>

\* Every element of the blocks of names becomes x.
FillBlocks(mem, names, x) ==
    [b \in DOMAIN mem |-> IF b \in names THEN Filled(FFTN, x) ELSE mem[b]]

AssignBlocks(a, names) ==
    [b \in DOMAIN a |-> IF b \in names THEN 0 .. FFTN - 1 ELSE a[b]]

\* Lines 126-135, 288-297, 431-446, 553-568: the input signal, a sum of
\* three cosines, is generated.
FFTSignal ==
    /\ pc = "fft_signal"
    /\ blocks' = FillBlocks(blocks, FFTDemo(demo).Signal, 1)
    /\ assigned' = AssignBlocks(assigned, FFTDemo(demo).Signal)
    /\ pc' = IF FFTDemo(demo).Real THEN "fft_ctoz" ELSE "fft_forward"
    /\ UNCHANGED <<Setup, demo, iter, out, err, status, expectedRead,
                   timedInput, fftFrame>>

\* Lines 154, 316: vDSP_ctoz moves the real signal to the vector the FFT
\* reads.
FFTCtoz ==
    /\ pc = "fft_ctoz"
    /\ blocks' = Store(blocks, FFTDemo(demo).In,
                       CtozOf(blocks, FFTDemo(demo).Count))
    /\ assigned' = AssignVector(assigned, FFTDemo(demo).In,
                                0 .. FFTDemo(demo).Count - 1)
    /\ pc' = "fft_forward"
    /\ UNCHANGED <<Setup, demo, iter, out, err, status, expectedRead,
                   timedInput, fftFrame>>

\* One call of vDSP_fft_zrip, vDSP_fft_zrop, vDSP_fft_zip or vDSP_fft_zop
\* as the demonstration d makes it, on the memory mem.
FFTCall(mem, d) ==
    Store(mem, FFTDemo(d).Out,
          Transformed(Elements(mem, FFTDemo(d).In, FFTDemo(d).Count)))

\* Lines 157, 319, 449, 571: the FFT of the signal.
FFTForward ==
    /\ pc = "fft_forward"
    /\ blocks' = FFTCall(blocks, demo)
    /\ assigned' = AssignVector(assigned, FFTDemo(demo).Out,
                                0 .. FFTDemo(demo).Count - 1)
    /\ pc' = "fft_expected"
    /\ UNCHANGED <<Setup, demo, iter, out, err, status, expectedRead,
                   timedInput, fftFrame>>

\* Lines 162-170, 324-332, 454-462, 577-585: the memory of Expected is
\* allocated.
FFTExpected ==
    /\ pc = "fft_expected"
    /\ \/ /\ \E g \in [FFTDemo(demo).Second -> Garbage] :
                 blocks' = Allocated(blocks, FFTDemo(demo).Second, g)
          /\ assigned' = Unassigned(assigned, FFTDemo(demo).Second)
          /\ pc' = "fft_zero_expected"
          /\ UNCHANGED <<err, status>>
       \/ /\ FFTExit("failed to allocate memory")
          /\ UNCHANGED <<blocks, assigned>>
    /\ UNCHANGED <<Setup, demo, iter, out, expectedRead, timedInput, fftFrame>>

\* Lines 172-173, 334-335, 464-465, 587-588: the loop
\* for (i = 0; i < N/2; ++i) Expected.realp[i] = Expected.imagp[i] = 0.
FFTZeroExpected ==
    /\ pc = "fft_zero_expected"
    /\ blocks' = Store(blocks, FFTDemo(demo).Expected,
                       SplitComplex(Filled(FFTDemo(demo).Zeroed, 0),
                                    Filled(FFTDemo(demo).Zeroed, 0)))
    /\ assigned' = AssignVector(assigned, FFTDemo(demo).Expected,
                                0 .. FFTDemo(demo).Zeroed - 1)
    /\ pc' = "fft_frequencies"
    /\ UNCHANGED <<Setup, demo, iter, out, err, status, expectedRead,
                   timedInput, fftFrame>>

\* The elements of the sequence fs.
Range(fs) == {fs[n] : n \in DOMAIN fs}

\* Lines 175-183, 337-345, 467-475, 590-598: the element of each of the
\* three frequencies receives N * cos and N * sin of its phase.
FFTFrequencies ==
    /\ pc = "fft_frequencies"
    /\ LET D == FFTDemo(demo)
           re == [f \in Range(D.Frequency) |-> 1]
           im == [f \in Range(D.Frequency) |->
                     D.Sine[CHOOSE n \in DOMAIN D.Frequency :
                                D.Frequency[n] = f]]
       IN  /\ blocks' = Store(blocks, D.Expected, SplitComplex(re, im))
           /\ assigned' = AssignVector(assigned, D.Expected,
                                       Range(D.Frequency))
    /\ pc' = "fft_compare"
    /\ UNCHANGED <<Setup, demo, iter, out, err, status, expectedRead,
                   timedInput, fftFrame>>

\* Lines 30-53 called at lines 186, 348, 478, 601: CompareComplexVectors
\* reads Expected.realp[i] and Expected.imagp[i] for every i < Length and
\* prints the relative error.
CompareComplexVectors ==
    /\ pc = "fft_compare"
    /\ expectedRead' = Targets(FFTDemo(demo).Expected,
                               0 .. FFTDemo(demo).Length - 1)
    /\ out' = Append(out, <<"Relative error in observed result">>)
    /\ pc' = "fft_free_expected"
    /\ UNCHANGED <<Setup, demo, iter, blocks, assigned, err, status,
                   timedInput, fftFrame>>

\* Lines 189, 351, 481-482, 604-605: the memory of Expected is freed.
FFTFreeExpected ==
    /\ pc = "fft_free_expected"
    /\ blocks' = Freed(blocks, FFTDemo(demo).Second)
    /\ assigned' = Freed(assigned, FFTDemo(demo).Second)
    /\ pc' = IF FFTDemo(demo).ZeroSignal # {} THEN "fft_zero_signal"
                                              ELSE "fft_time"
    /\ iter' = 0
    /\ UNCHANGED <<Setup, demo, out, err, status, expectedRead, timedInput,
                   fftFrame>>

\* Lines 199-200, 361-362, 492-493: the signal is zeroed before timing.
FFTZeroSignal ==
    /\ pc = "fft_zero_signal"
    /\ blocks' = FillBlocks(blocks, FFTDemo(demo).ZeroSignal, 0)
    /\ assigned' = AssignBlocks(assigned, FFTDemo(demo).ZeroSignal)
    /\ pc' = "fft_time"
    /\ iter' = 0
    /\ UNCHANGED <<Setup, demo, out, err, status, expectedRead, timedInput,
                   fftFrame>>

\* Lines 206-207, 368-370, 499-500, 615-617: one iteration of the loop that
\* times the FFT by itself.  The iterations after the first MaxTimed
\* repeat the same call.
FFTTimed ==
    /\ pc = "fft_time"
    /\ iter < FFTIterations /\ iter < MaxTimed
    /\ timedInput' = Elements(blocks, FFTDemo(demo).In, FFTDemo(demo).Count)
    /\ blocks' = FFTCall(blocks, demo)
    /\ iter' = iter + 1
    /\ UNCHANGED <<pc, Setup, demo, out, err, status, assigned, expectedRead,
                   fftFrame>>

\* Lines 209-215, 372-378, 502-508, 619-625: the loop has ended and the
\* time is reported.
FFTReport ==
    /\ pc = "fft_time"
    /\ ~(iter < FFTIterations /\ iter < MaxTimed)
    /\ out' = Append(out, <<"takes microseconds">>)
    /\ IF FFTDemo(demo).WithCtoz
       THEN pc' = "fft_time_ctoz" /\ iter' = 0
       ELSE pc' = "fft_free" /\ iter' = FFTIterations
    /\ UNCHANGED <<Setup, demo, blocks, err, status, assigned, expectedRead,
                   timedInput, fftFrame>>

\* Lines 221-226: one iteration of the loop that times vDSP_fft_zrip with
\* vDSP_ctoz before it and vDSP_ztoc after it.
FFTTimedWithCtoz ==
    /\ pc = "fft_time_ctoz"
    /\ iter < FFTIterations /\ iter < MaxTimed
    /\ LET D == FFTDemo(demo)
           moved == Store(blocks, D.In, CtozOf(blocks, D.Count))
           done == FFTCall(moved, demo)
       IN  /\ timedInput' = Elements(moved, D.In, D.Count)
           /\ blocks' = [done EXCEPT !["Signal"] =
                            ZtocOf(Elements(done, D.Out, D.Count), D.Count)]
    /\ iter' = iter + 1
    /\ UNCHANGED <<pc, Setup, demo, out, err, status, assigned, expectedRead,
                   fftFrame>>

\* Lines 228-235: the second loop has ended and its time is reported.
FFTReportWithCtoz ==
    /\ pc = "fft_time_ctoz"
    /\ ~(iter < FFTIterations /\ iter < MaxTimed)
    /\ out' = Append(out, <<"with vDSP_ctoz and vDSP_ztoc takes microseconds">>)
    /\ pc' = "fft_free"
    /\ iter' = FFTIterations
    /\ UNCHANGED <<Setup, demo, blocks, err, status, assigned, expectedRead,
                   timedInput, fftFrame>>

\* The demonstration DemonstrateFFT calls after d, "" after the last.
NextDemo(d) ==
    LET n == CHOOSE m \in DOMAIN FFTDemos : FFTDemos[m] = d
    IN  IF n < Len(FFTDemos) THEN FFTDemos[n + 1] ELSE ""

\* Lines 237-240, 388-392, 510-513, 627-632: the arrays are freed and the
\* demonstration returns; lines 648-651: the next one is called.
FFTFree ==
    /\ pc = "fft_free"
    /\ blocks' = <<>>
    /\ assigned' = <<>>
    /\ expectedRead' = {}
    /\ timedInput' = <<>>
    /\ iter' = 0
    /\ demo' = NextDemo(demo)
    /\ pc' = IF demo' = "" THEN "fft_end" ELSE "fft_alloc"
    /\ UNCHANGED <<Setup, out, err, status, fftFrame>>

\* Lines 653-656: the setup is destroyed.
FFTDestroySetup ==
    /\ pc = "fft_end"
    /\ Setup' = "destroyed"
    /\ out' = Append(out, <<"End">>)
    /\ pc' = "fft_done"
    /\ UNCHANGED <<demo, blocks, iter, err, status, assigned, expectedRead,
                   timedInput, fftFrame>>

DemonstrateFFT ==
    \/ FFTCreateSetup
    \/ FFTAllocate
    \/ FFTSignal
    \/ FFTCtoz
    \/ FFTForward
    \/ FFTExpected
    \/ FFTZeroExpected
    \/ FFTFrequencies
    \/ CompareComplexVectors
    \/ FFTFreeExpected
    \/ FFTZeroSignal
    \/ FFTTimed
    \/ FFTReport
    \/ FFTTimedWithCtoz
    \/ FFTReportWithCtoz
    \/ FFTFree
    \/ FFTDestroySetup

NextFFT == DemonstrateFFT

SpecFFT == InitFFT /\ [][NextFFT]_vars

---------------------------------------------------------------------------
(* Properties of DemonstrateFFT, under SpecFFT. *)

\* The element <<block, index>> has been assigned since its block was
\* allocated.
Written(t) == t[1] \in DOMAIN assigned /\ t[2] \in assigned[t[1]]

\* C17: in each of the four FFT demonstrations, every element of Expected
\* that CompareComplexVectors reads (realp[i] and imagp[i] for
\* 0 <= i < Length, Length being N/2 for the real FFTs and N for the
\* complex ones) was written by the demonstration before the comparison:
\* no uninitialized element is read.
C17_ExpectedWrittenBeforeRead ==
    pc = "fft_free_expected" => \A t \in expectedRead : Written(t)

\* The demonstrations that zero the signal before timing.
ZeroingDemos == {"zrip", "zrop", "zip"}

\* Every element of the vector x, real and imaginary, is zero.
AllZero(x) == \A part \in DOMAIN x : \A k \in DOMAIN x[part] : x[part][k] = 0

\* C18: in every FFT demonstration that zeroes the signal before timing
\* (zrip, zrop, zip), the data the timed FFT calls transform is all zero:
\* the array passed as FFT input holds only zeros at the start of each
\* timing loop and at every iteration of it.
C18_TimedInputAllZero ==
    demo \in ZeroingDemos =>
        /\ pc = "fft_time" =>
               AllZero(Elements(blocks, FFTDemo(demo).In, FFTDemo(demo).Count))
        /\ timedInput # <<>> => AllZero(timedInput)

===========================================================================
